---- MODULE Spec2Model ----
(***************************************************************************)
(* Move composition and letter exchange of the Scrabble front end: the     *)
(* zustand store useGameStore (src/src/lib/utils.ts, second store of the   *)
(* file) together with the handlers of the presentation layer that call    *)
(* it (Board.tsx handleDrop, PlaceWordControls.tsx keydown handler and     *)
(* auto-centre effect, Rack handleClick).                                  *)
(*                                                                         *)
(* Representation.  A store state is a record; the variables below are its *)
(* fields.  null/undefined is modelled by the empty tuple for start and    *)
(* board, by "null" for error and gameId, and by NoIndex for an entry of   *)
(* wordRackIndices.  Coordinates and rack indices are 0-based as in the    *)
(* source; TLA+ sequences are 1-based, hence the "+ 1" in every lookup.    *)
(* Letters are one-character strings; a word is a sequence of letters.     *)
(* Every await of an async store method ends an action: the continuation   *)
(* waiting for the response is an entry of calls.                          *)
(***************************************************************************)
EXTENDS Integers, Sequences, FiniteSets, TLC

VARIABLES
    gameId,             \* id of the loaded game, "null" before loadGame
    board,              \* rows of cells, "." = empty; <<>> before the first load
    currentPlayer,      \* index of the player to move
    hands,              \* hands[p + 1] = rack of player p; <<>> before the first load
    loading,            \* a request is running
    error,              \* "null" or a message
    start,              \* anchor <<x, y>>, or <<>> when unset
    direction,          \* "row" or "col"
    word,               \* composed word
    wordRackIndices,    \* rack index of each letter of word, NoIndex = unknown
    exchanging,         \* exchange mode
    exchangeSelection,  \* rack indices selected for exchange
    calls,              \* calls[k] = number of pending continuations of kind k
    lastCall,           \* history: <<operation invoked last, outcome or argument>>
    hStack              \* history: <<word, wordRackIndices>> before each append of the
                        \* current run of appends and backspaces, latest first

storeVars == <<gameId, board, currentPlayer, hands, loading, error, start,
               direction, word, wordRackIndices, exchanging, exchangeSelection,
               calls>>
vars == <<gameId, board, currentPlayer, hands, loading, error, start,
          direction, word, wordRackIndices, exchanging, exchangeSelection,
          calls, lastCall, hStack>>

(***************************************************************************)
(* Bounds of the model.                                                    *)
(***************************************************************************)
MaxWord == 3
MaxInflight == 1
BoardN == 3
MaxPending == 2

(***************************************************************************)
(* Values.                                                                 *)
(***************************************************************************)
NoIndex == -1
DefaultBoardSize == 15
NoStart == <<>>
NoBoard == <<>>
NoError == "null"
NoGame == "null"
GameIds == {"g1"}

CallKinds == {"place", "skip", "exchange", "load"}
NoCalls == [k \in CallKinds |-> 0]

toUpperCase(ch) ==
    CASE ch = "a" -> "A"
      [] ch = "b" -> "B"
      [] OTHER -> ch

upperWord(w) == [i \in 1..Len(w) |-> toUpperCase(w[i])]

Floor2(n) == n \div 2

(***************************************************************************)
(* What the remote service may answer to a refresh: board, player to move  *)
(* and racks.                                                              *)
(***************************************************************************)
EmptyBoard == [y \in 1..BoardN |-> [x \in 1..BoardN |-> "."]]
ServerStates ==
    { [board |-> EmptyBoard, currentPlayer |-> 0,
       hands |-> << <<"a", "A">>, <<"B">> >>],
      [board |-> [EmptyBoard EXCEPT ![1][2] = "b"], currentPlayer |-> 1,
       hands |-> << <<"A">>, <<"a">> >>] }

Coords == 0..(BoardN - 1)
RackIdx == {0, 1}
DropData == RackIdx \cup {NoIndex}
KeyLetters == {"a", "B"}
Keys == {"Enter", "Backspace", " ", "ArrowUp", "ArrowDown", "ArrowLeft",
         "ArrowRight", "1"} \cup KeyLetters
WordInputs == {<<>>, <<"a", "b">>}
Results == {"ok", "failed", "throw"}

(***************************************************************************)
(* The store state as a record, and its write-back.                        *)
(***************************************************************************)
S == [gameId |-> gameId, board |-> board, currentPlayer |-> currentPlayer,
      hands |-> hands, loading |-> loading, error |-> error, start |-> start,
      direction |-> direction, word |-> word,
      wordRackIndices |-> wordRackIndices, exchanging |-> exchanging,
      exchangeSelection |-> exchangeSelection, calls |-> calls]

Commit(n) ==
    /\ gameId' = n.gameId
    /\ board' = n.board
    /\ currentPlayer' = n.currentPlayer
    /\ hands' = n.hands
    /\ loading' = n.loading
    /\ error' = n.error
    /\ start' = n.start
    /\ direction' = n.direction
    /\ word' = n.word
    /\ wordRackIndices' = n.wordRackIndices
    /\ exchanging' = n.exchanging
    /\ exchangeSelection' = n.exchangeSelection
    /\ calls' = n.calls

InitStore ==
    [gameId |-> NoGame, board |-> NoBoard, currentPlayer |-> 0, hands |-> <<>>,
     loading |-> FALSE, error |-> NoError, start |-> NoStart,
     direction |-> "row", word |-> <<>>, wordRackIndices |-> <<>>,
     exchanging |-> FALSE, exchangeSelection |-> <<>>, calls |-> NoCalls]

\* hands[currentPlayer] ?? []
rackOf(s) ==
    IF s.currentPlayer + 1 \in DOMAIN s.hands THEN s.hands[s.currentPlayer + 1]
    ELSE <<>>

Range(f) == {f[i] : i \in DOMAIN f}
Min(A) == CHOOSE a \in A : \A b \in A : a <= b
AllButLast(q) == SubSeq(q, 1, Len(q) - 1)
Without(q, v) == SelectSeq(q, LAMBDA e : e # v)
NumCalls(c) == c["place"] + c["skip"] + c["exchange"] + c["load"]

(***************************************************************************)
(* Preview setters.                                                        *)
(***************************************************************************)
setStart(s, x, y) == [s EXCEPT !.start = <<x, y>>, !.error = NoError]

\* Mutant of setDirection: the call is ignored once two letters are composed.
setDirection_guarded(s, d) ==
    IF Len(s.word) >= 2 THEN s ELSE [s EXCEPT !.direction = d]

setDirection(s, d) == [s EXCEPT !.direction = d]

setWord(s, w) ==
    LET up == upperWord(w)
    IN  [s EXCEPT !.word = up,
                  !.wordRackIndices = [i \in 1..Len(up) |-> NoIndex],
                  !.error = NoError]

\* Mutant of clear: the letter sources are left behind.
clear_keepIndices(s) ==
    [s EXCEPT !.start = NoStart, !.word = <<>>, !.error = NoError]

\* Mutant of clear: only the last letter is dropped, the anchor going with
\* the last of them.
clear_dropLast(s) ==
    [s EXCEPT !.start = IF Len(s.word) <= 1 THEN NoStart ELSE @,
              !.word = AllButLast(@),
              !.wordRackIndices = AllButLast(@),
              !.error = NoError]

\* Mutant of clear: the call is ignored while a request is loading.
clear_ignoredWhileLoading(s) ==
    IF s.loading THEN s
    ELSE [s EXCEPT !.start = NoStart, !.word = <<>>, !.wordRackIndices = <<>>,
                   !.error = NoError]

clear(s) ==
    [s EXCEPT !.start = NoStart, !.word = <<>>, !.wordRackIndices = <<>>,
              !.error = NoError]

(***************************************************************************)
(* Composing a word from the rack.                                         *)
(***************************************************************************)
\* Mutant of appendFromRack: the rack index is not recorded.
appendFromRack_noIndex(s, index) ==
    LET rack == rackOf(s)
    IN  IF s.exchanging THEN s
        ELSE IF ~(index + 1 \in DOMAIN rack) THEN s
        ELSE [s EXCEPT !.word = Append(s.word, toUpperCase(rack[index + 1])),
                       !.error = NoError]

appendFromRack(s, index) ==
    LET rack == rackOf(s)
    IN  IF s.exchanging THEN s
        ELSE IF ~(index + 1 \in DOMAIN rack) THEN s
        ELSE [s EXCEPT !.word = Append(s.word, toUpperCase(rack[index + 1])),
                       !.wordRackIndices = Append(s.wordRackIndices, index),
                       !.error = NoError]

\* Mutant of appendFromKeyboard: the tiles already used are not skipped.
appendFromKeyboard_firstMatch(s, letter) ==
    LET rack == rackOf(s)
        upper == toUpperCase(letter)
        free == {i \in 0..(Len(rack) - 1) : toUpperCase(rack[i + 1]) = upper}
    IN  IF s.exchanging THEN s
        ELSE IF Len(rack) = 0 THEN s
        ELSE IF free = {} THEN s
        ELSE [s EXCEPT !.word = Append(s.word, upper),
                       !.wordRackIndices = Append(s.wordRackIndices, Min(free)),
                       !.error = NoError]

\* Mutant of appendFromKeyboard: the lowest unused tile is taken whatever
\* letter it holds.
appendFromKeyboard_firstUnused(s, letter) ==
    LET rack == rackOf(s)
        upper == toUpperCase(letter)
        used == Range(s.wordRackIndices) \ {NoIndex}
        free == {i \in 0..(Len(rack) - 1) : i \notin used}
    IN  IF s.exchanging THEN s
        ELSE IF Len(rack) = 0 THEN s
        ELSE IF free = {} THEN s
        ELSE [s EXCEPT !.word = Append(s.word, upper),
                       !.wordRackIndices = Append(s.wordRackIndices, Min(free)),
                       !.error = NoError]

appendFromKeyboard(s, letter) ==
    LET rack == rackOf(s)
        upper == toUpperCase(letter)
        used == Range(s.wordRackIndices) \ {NoIndex}
        free == {i \in 0..(Len(rack) - 1) :
                    i \notin used /\ toUpperCase(rack[i + 1]) = upper}
    IN  IF s.exchanging THEN s
        ELSE IF Len(rack) = 0 THEN s
        ELSE IF free = {} THEN s
        ELSE [s EXCEPT !.word = Append(s.word, upper),
                       !.wordRackIndices = Append(s.wordRackIndices, Min(free)),
                       !.error = NoError]

\* Mutant of backspaceWord: the letter sources are not truncated.
backspaceWord_keepIndices(s) ==
    IF Len(s.word) = 0 THEN s
    ELSE [s EXCEPT !.word = AllButLast(s.word), !.error = NoError]

\* Mutant of backspaceWord: the direction is reset once the word is short.
backspaceWord_resetDirection(s) ==
    IF Len(s.word) = 0 THEN s
    ELSE [s EXCEPT !.word = AllButLast(s.word),
                   !.wordRackIndices = AllButLast(s.wordRackIndices),
                   !.direction = IF Len(s.word) <= 2 THEN "row" ELSE @,
                   !.error = NoError]

backspaceWord(s) ==
    IF Len(s.word) = 0 THEN s
    ELSE [s EXCEPT !.word = AllButLast(s.word),
                   !.wordRackIndices = AllButLast(s.wordRackIndices),
                   !.error = NoError]

\* Mutant of placeLetterPreview: the letter is also written to the board
\* cell and its tile taken out of the rack.
placeLetterPreview_writesBoard(s, x, y, letter, rackIndex) ==
    LET n == IF rackIndex # NoIndex
             THEN appendFromRack(setStart(s, x, y), rackIndex)
             ELSE appendFromKeyboard(setStart(s, x, y), letter)
        i == IF Len(n.wordRackIndices) > 0
             THEN n.wordRackIndices[Len(n.wordRackIndices)] ELSE NoIndex
        cp == s.currentPlayer + 1
    IN  IF n.word = s.word \/ s.board = NoBoard \/ i = NoIndex
           \/ ~(y + 1 \in DOMAIN s.board)
           \/ ~(x + 1 \in DOMAIN s.board[y + 1])
        THEN n
        ELSE [n EXCEPT !.board[y + 1][x + 1] = n.word[Len(n.word)],
                       !.hands[cp] = SubSeq(@, 1, i) \o SubSeq(@, i + 2, Len(@))]

placeLetterPreview(s, x, y, letter, rackIndex) ==
    IF rackIndex # NoIndex THEN appendFromRack(setStart(s, x, y), rackIndex)
    ELSE appendFromKeyboard(setStart(s, x, y), letter)

(***************************************************************************)
(* Letter exchange.                                                        *)
(***************************************************************************)
\* Mutant of startExchange: no check of the word in progress.
startExchange_noGuard(s) ==
    [s EXCEPT !.exchanging = TRUE, !.exchangeSelection = <<>>,
              !.error = NoError]

startExchange(s) ==
    IF Len(s.word) > 0 THEN s
    ELSE [s EXCEPT !.exchanging = TRUE, !.exchangeSelection = <<>>,
                   !.error = NoError]

\* Mutant of toggleExchangeIndex: the index is added whether or not it is
\* selected already.
toggleExchangeIndex_alwaysAdds(s, index) ==
    IF ~s.exchanging THEN s
    ELSE [s EXCEPT !.exchangeSelection = Append(@, index)]

\* Mutant of toggleExchangeIndex: the index is toggled outside exchange mode
\* as well.
toggleExchangeIndex_noGuard(s, index) ==
    IF index \in Range(s.exchangeSelection)
    THEN [s EXCEPT !.exchangeSelection = Without(@, index)]
    ELSE [s EXCEPT !.exchangeSelection = Append(@, index)]

toggleExchangeIndex(s, index) ==
    IF ~s.exchanging THEN s
    ELSE IF index \in Range(s.exchangeSelection)
         THEN [s EXCEPT !.exchangeSelection = Without(@, index)]
         ELSE [s EXCEPT !.exchangeSelection = Append(@, index)]

\* Mutant of cancelExchange: the preview is reset with the selection.
cancelExchange_clearsPreview(s) ==
    [s EXCEPT !.exchanging = FALSE, !.exchangeSelection = <<>>,
              !.start = NoStart, !.word = <<>>, !.wordRackIndices = <<>>,
              !.error = NoError]

cancelExchange(s) ==
    [s EXCEPT !.exchanging = FALSE, !.exchangeSelection = <<>>]

(***************************************************************************)
(* Async methods.  Each operator below is the synchronous part of a method *)
(* up to its next await, or the continuation that runs when the awaited    *)
(* request settles.                                                        *)
(***************************************************************************)
addCall(s, k) == [s EXCEPT !.calls[k] = @ + 1]
dropCall(s, k) == [s EXCEPT !.calls[k] = @ - 1]

\* loadGame up to its first await.
loadGame(s, gid) ==
    addCall([s EXCEPT !.loading = TRUE, !.error = NoError, !.gameId = gid],
            "load")

\* refresh(): reload when a game is known.
refresh(s) == IF s.gameId = NoGame THEN s ELSE loadGame(s, s.gameId)

\* Mutant of loadGameDone: the final set also empties the word in progress.
loadGameDone_resetsWord(s, srv) ==
    dropCall([s EXCEPT !.board = srv.board,
                       !.currentPlayer = srv.currentPlayer,
                       !.hands = srv.hands,
                       !.start = s.start,
                       !.word = <<>>, !.wordRackIndices = <<>>,
                       !.loading = FALSE], "load")

\* Mutant of loadGameDone: the anchor is overwritten by the board centre.
loadGameDone_centreStart(s, srv) ==
    dropCall([s EXCEPT !.board = srv.board,
                       !.currentPlayer = srv.currentPlayer,
                       !.hands = srv.hands,
                       !.start = <<Floor2(Len(srv.board)),
                                   Floor2(Len(srv.board))>>,
                       !.loading = FALSE], "load")

\* Mutant of loadGameDone: a word whose letter sources no longer fit the new
\* rack is reported as an error at once.
loadGameDone_checksWord(s, srv) ==
    LET rack == IF srv.currentPlayer + 1 \in DOMAIN srv.hands
                THEN srv.hands[srv.currentPlayer + 1] ELSE <<>>
        stale == \E k \in DOMAIN s.wordRackIndices :
                    /\ s.wordRackIndices[k] # NoIndex
                    /\ ~(s.wordRackIndices[k] + 1 \in DOMAIN rack)
    IN  dropCall([s EXCEPT !.board = srv.board,
                           !.currentPlayer = srv.currentPlayer,
                           !.hands = srv.hands,
                           !.start = s.start,
                           !.error = IF stale THEN "message" ELSE @,
                           !.loading = FALSE], "load")

\* loadGame after its last await, all requests answered: the final set and
\* the finally block (and, when place, skipTurn or confirmExchange awaited
\* this refresh, their finally block, which writes loading = false again).
loadGameDone(s, srv) ==
    dropCall([s EXCEPT !.board = srv.board,
                       !.currentPlayer = srv.currentPlayer,
                       !.hands = srv.hands,
                       !.start = s.start,
                       !.loading = FALSE], "load")

\* loadGame when one of its requests throws: catch and finally.
loadGameFailed(s) ==
    dropCall([s EXCEPT !.error = "message", !.loading = FALSE], "load")

\* The tail of place / skipTurn / confirmExchange on success: refresh(), i.e.
\* loadGame up to its first await, or straight to finally without a game id.
awaitRefresh(s, k) ==
    IF s.gameId = NoGame THEN dropCall([s EXCEPT !.loading = FALSE], k)
    ELSE loadGame(dropCall(s, k), s.gameId)

\* Mutant of submissionFailed: the finally block is missing and loading
\* stays as it is.
submissionFailed_keepsLoading(s, k, res) ==
    dropCall([s EXCEPT !.error = "message"], k)

\* Mutant of submissionFailed: the preview is reset on a failure as it is on
\* a success.
submissionFailed_resets(s, k, res) ==
    dropCall([s EXCEPT !.error = "message",
                       !.word = <<>>, !.wordRackIndices = <<>>,
                       !.start = NoStart,
                       !.loading = FALSE], k)

\* The failed and the throwing outcome of a submission: error, then finally.
submissionFailed(s, k, res) ==
    dropCall([s EXCEPT !.error = "message",
                       !.loading = FALSE], k)

place(s) ==
    IF s.gameId = NoGame \/ s.start = NoStart \/ Len(s.word) = 0 THEN s
    ELSE addCall([s EXCEPT !.loading = TRUE, !.error = NoError], "place")

\* Mutant of placeSettled: an accepted move resets the word but leaves the
\* anchor.
placeSettled_keepAnchor(s, res) ==
    IF res = "ok"
    THEN awaitRefresh([s EXCEPT !.word = <<>>, !.wordRackIndices = <<>>],
                      "place")
    ELSE submissionFailed(s, "place", res)

placeSettled(s, res) ==
    IF res = "ok"
    THEN awaitRefresh([s EXCEPT !.word = <<>>, !.wordRackIndices = <<>>,
                                !.start = NoStart], "place")
    ELSE submissionFailed(s, "place", res)

\* Mutant of skipTurn: the preview is left as it is when the request is
\* issued.
skipTurn_keepsWord(s) ==
    IF s.gameId = NoGame THEN s
    ELSE addCall([s EXCEPT !.loading = TRUE, !.error = NoError], "skip")

skipTurn(s) ==
    IF s.gameId = NoGame THEN s
    ELSE addCall([s EXCEPT !.loading = TRUE, !.error = NoError,
                           !.word = <<>>, !.wordRackIndices = <<>>,
                           !.start = NoStart], "skip")

skipTurnSettled(s, res) ==
    IF res = "ok" THEN awaitRefresh(s, "skip")
    ELSE submissionFailed(s, "skip", res)

\* Mutant of exchangeLetters: the letters are taken in rack order, not in
\* the order of selection.
exchangeLetters_rackOrder(s) ==
    LET rack == rackOf(s)
        all == [k \in 1..Len(rack) |-> k - 1]
        held == SelectSeq(all, LAMBDA i : i \in Range(s.exchangeSelection))
    IN  [k \in 1..Len(held) |-> rack[held[k] + 1]]

\* The letters confirmExchange sends: the rack letters at the selected
\* indices, indices without a letter dropped.
exchangeLetters(s) ==
    LET rack == rackOf(s)
        held == SelectSeq(s.exchangeSelection, LAMBDA i : i + 1 \in DOMAIN rack)
    IN  [k \in 1..Len(held) |-> rack[held[k] + 1]]

confirmExchange(s) ==
    IF s.gameId = NoGame \/ ~s.exchanging \/ Len(s.exchangeSelection) = 0 THEN s
    ELSE IF Len(exchangeLetters(s)) = 0 THEN s
    ELSE addCall([s EXCEPT !.loading = TRUE, !.error = NoError], "exchange")

\* Mutant of confirmExchangeSettled: a failed exchange leaves exchange mode.
confirmExchangeSettled_cancelsOnFailure(s, res) ==
    IF res = "ok"
    THEN awaitRefresh([s EXCEPT !.word = <<>>, !.wordRackIndices = <<>>,
                                !.start = NoStart, !.exchanging = FALSE,
                                !.exchangeSelection = <<>>], "exchange")
    ELSE submissionFailed([s EXCEPT !.exchanging = FALSE,
                                    !.exchangeSelection = <<>>],
                          "exchange", res)

confirmExchangeSettled(s, res) ==
    IF res = "ok"
    THEN awaitRefresh([s EXCEPT !.word = <<>>, !.wordRackIndices = <<>>,
                                !.start = NoStart, !.exchanging = FALSE,
                                !.exchangeSelection = <<>>], "exchange")
    ELSE submissionFailed(s, "exchange", res)

(***************************************************************************)
(* previewStatus: the client-side verdict.  missing is the list of         *)
(* <<letter, count>> pairs in the order the letters were first missed.     *)
(***************************************************************************)
firstIndex(rack, letter) ==
    LET hits == {i \in 1..Len(rack) : toUpperCase(rack[i]) = letter}
    IN  IF hits = {} THEN 0 ELSE Min(hits)

removeAt(q, i) == SubSeq(q, 1, i - 1) \o SubSeq(q, i + 1, Len(q))

bumpNeed(need, letter) ==
    IF \E k \in 1..Len(need) : need[k][1] = letter
    THEN [k \in 1..Len(need) |->
            IF need[k][1] = letter THEN <<letter, need[k][2] + 1>> ELSE need[k]]
    ELSE Append(need, <<letter, 1>>)

RECURSIVE previewLoop(_, _, _)
previewLoop(s, i, acc) ==
    IF i >= Len(s.word) THEN acc
    ELSE
      LET rows == Len(s.board)
          cols == IF rows > 0 THEN Len(s.board[1]) ELSE 0
          x == IF s.direction = "row" THEN s.start[1] + i ELSE s.start[1]
          y == IF s.direction = "col" THEN s.start[2] + i ELSE s.start[2]
          desired == toUpperCase(s.word[i + 1])
      IN  IF x < 0 \/ y < 0 \/ x >= cols \/ y >= rows
          THEN previewLoop(s, i + 1, [acc EXCEPT !.overflow = TRUE])
          ELSE
            LET existing == s.board[y + 1][x + 1]
                idx == firstIndex(acc.rack, desired)
            IN  IF existing # "." /\ toUpperCase(existing) # desired
                THEN previewLoop(s, i + 1, [acc EXCEPT !.conflict = TRUE])
                ELSE IF existing # "." THEN previewLoop(s, i + 1, acc)
                ELSE IF idx > 0
                THEN previewLoop(s, i + 1,
                                 [acc EXCEPT !.rack = removeAt(@, idx)])
                ELSE previewLoop(s, i + 1,
                                 [acc EXCEPT !.need = bumpNeed(@, desired)])

\* Mutant of previewStatus: only the anchor cell is tested against the
\* bounds of the board.
previewStatus_anchorOnly(s) ==
    IF s.board = NoBoard \/ s.start = NoStart \/ Len(s.word) = 0
    THEN [ok |-> FALSE, overflow |-> FALSE, conflict |-> FALSE, missing |-> <<>>]
    ELSE
      LET acc == previewLoop(s, 0, [rack |-> rackOf(s), need |-> <<>>,
                                    overflow |-> FALSE, conflict |-> FALSE])
          out == \/ s.start[1] >= Len(s.board[1])
                 \/ s.start[2] >= Len(s.board)
      IN  [ok |-> ~out /\ ~acc.conflict /\ Len(acc.need) = 0,
           overflow |-> out, conflict |-> acc.conflict, missing |-> acc.need]

\* Mutant of previewStatus: every occupied cell under the word is a
\* conflict, whatever letter it holds.
previewStatus_anyOccupied(s) ==
    IF s.board = NoBoard \/ s.start = NoStart \/ Len(s.word) = 0
    THEN [ok |-> FALSE, overflow |-> FALSE, conflict |-> FALSE, missing |-> <<>>]
    ELSE
      LET acc == previewLoop(s, 0, [rack |-> rackOf(s), need |-> <<>>,
                                    overflow |-> FALSE, conflict |-> FALSE])
          hit == \E i \in 0..(Len(s.word) - 1) :
                   LET x == IF s.direction = "row" THEN s.start[1] + i
                            ELSE s.start[1]
                       y == IF s.direction = "col" THEN s.start[2] + i
                            ELSE s.start[2]
                   IN  /\ y + 1 \in DOMAIN s.board
                       /\ x + 1 \in DOMAIN s.board[y + 1]
                       /\ s.board[y + 1][x + 1] # "."
      IN  [ok |-> ~acc.overflow /\ ~hit /\ Len(acc.need) = 0,
           overflow |-> acc.overflow, conflict |-> hit, missing |-> acc.need]

\* Mutant of previewStatus: a letter that lands on a matching occupied cell
\* takes a rack tile like any other.
previewStatus_consumeOccupied(s) ==
    IF s.board = NoBoard \/ s.start = NoStart \/ Len(s.word) = 0
    THEN [ok |-> FALSE, overflow |-> FALSE, conflict |-> FALSE, missing |-> <<>>]
    ELSE
      LET init == [rack |-> rackOf(s), need |-> <<>>,
                   overflow |-> FALSE, conflict |-> FALSE]
          blank == [y \in DOMAIN s.board |->
                      [x \in DOMAIN s.board[y] |-> "."]]
          acc == previewLoop(s, 0, init)
          all == previewLoop([s EXCEPT !.board = blank], 0, init)
      IN  [ok |-> ~acc.overflow /\ ~acc.conflict /\ Len(all.need) = 0,
           overflow |-> acc.overflow, conflict |-> acc.conflict,
           missing |-> all.need]

\* Mutant of previewStatus: ok does not look at the missing letters.
previewStatus_okIgnoresMissing(s) ==
    IF s.board = NoBoard \/ s.start = NoStart \/ Len(s.word) = 0
    THEN [ok |-> FALSE, overflow |-> FALSE, conflict |-> FALSE, missing |-> <<>>]
    ELSE
      LET acc == previewLoop(s, 0, [rack |-> rackOf(s), need |-> <<>>,
                                    overflow |-> FALSE, conflict |-> FALSE])
      IN  [ok |-> ~acc.overflow /\ ~acc.conflict,
           overflow |-> acc.overflow, conflict |-> acc.conflict,
           missing |-> acc.need]

previewStatus(s) ==
    IF s.board = NoBoard \/ s.start = NoStart \/ Len(s.word) = 0
    THEN [ok |-> FALSE, overflow |-> FALSE, conflict |-> FALSE, missing |-> <<>>]
    ELSE
      LET acc == previewLoop(s, 0, [rack |-> rackOf(s), need |-> <<>>,
                                    overflow |-> FALSE, conflict |-> FALSE])
      IN  [ok |-> ~acc.overflow /\ ~acc.conflict /\ Len(acc.need) = 0,
           overflow |-> acc.overflow, conflict |-> acc.conflict,
           missing |-> acc.need]

\* Mutant of previewStatusStore: the tiles are spliced out of the rack of the
\* store instead of a copy of it.
previewStatusStore_inPlace(s) ==
    IF s.board = NoBoard \/ s.start = NoStart \/ Len(s.word) = 0 THEN s
    ELSE IF ~(s.currentPlayer + 1 \in DOMAIN s.hands) THEN s
    ELSE
      LET acc == previewLoop(s, 0, [rack |-> rackOf(s), need |-> <<>>,
                                    overflow |-> FALSE, conflict |-> FALSE])
      IN  [s EXCEPT !.hands[s.currentPlayer + 1] = acc.rack]

\* The store a call of previewStatus leaves behind: the method reads the
\* store through get(), consumes tiles from a copy of the rack and never
\* calls set().
previewStatusStore(s) == s

(***************************************************************************)
(* Presentation layer: the handlers that forward gestures to the store.    *)
(***************************************************************************)
canSubmit(s) ==
    /\ ~s.exchanging
    /\ s.start # NoStart
    /\ Len(s.word) > 0
    /\ previewStatus(s).ok
    /\ ~s.loading

\* PlaceWordControls.tsx handleSubmit: the submit control of the form.
handleSubmit(s) == IF ~canSubmit(s) THEN s ELSE place(s)

\* Mutant of canSkip: the skip control stays enabled while loading.
canSkip_ignoresLoading(s) ==
    /\ Len(s.word) = 0
    /\ ~s.exchanging

\* PlaceWordControls.tsx canSkip, which enables the skip control.
canSkip(s) ==
    /\ ~s.loading
    /\ Len(s.word) = 0
    /\ ~s.exchanging

canConfirmExchange(s) ==
    /\ s.exchanging
    /\ ~s.loading
    /\ Len(s.exchangeSelection) > 0

\* The skip control: disabled unless canSkip, else skipTurn.
skipClick(s) == IF ~canSkip(s) THEN s ELSE skipTurn(s)

\* The exchange control: disabled while loading and, in exchange mode, unless
\* canConfirmExchange; it confirms in exchange mode and starts it otherwise.
exchangeClick(s) ==
    IF s.loading \/ (s.exchanging /\ ~canConfirmExchange(s)) THEN s
    ELSE IF s.exchanging THEN confirmExchange(s)
    ELSE startExchange(s)

\* Mutant of handleDrop: the second letter is accepted on any neighbour of
\* the anchor, the diagonal one included.
handleDrop_anyNeighbour(s, x, y, rackIndex) ==
    IF s.board = NoBoard THEN s
    ELSE IF s.board[y + 1][x + 1] # "." THEN s
    ELSE IF rackIndex = NoIndex THEN s
    ELSE IF s.start = NoStart \/ Len(s.word) = 0
    THEN appendFromRack(setStart(s, x, y), rackIndex)
    ELSE IF Len(s.word) = 1
    THEN LET canRow == x = s.start[1] + 1
             canCol == y = s.start[2] + 1
         IN  IF ~canRow /\ ~canCol THEN s
             ELSE IF canRow THEN appendFromRack(setDirection(s, "row"), rackIndex)
             ELSE appendFromRack(setDirection(s, "col"), rackIndex)
    ELSE LET nextX == IF s.direction = "row" THEN s.start[1] + Len(s.word)
                      ELSE s.start[1]
             nextY == IF s.direction = "col" THEN s.start[2] + Len(s.word)
                      ELSE s.start[2]
         IN  IF x # nextX \/ y # nextY THEN s
             ELSE appendFromRack(s, rackIndex)

\* Mutant of handleDrop: from the third letter on only the line is checked,
\* not the position on it.
handleDrop_anywhereOnLine(s, x, y, rackIndex) ==
    IF s.board = NoBoard THEN s
    ELSE IF s.board[y + 1][x + 1] # "." THEN s
    ELSE IF rackIndex = NoIndex THEN s
    ELSE IF s.start = NoStart \/ Len(s.word) = 0
    THEN appendFromRack(setStart(s, x, y), rackIndex)
    ELSE IF Len(s.word) = 1
    THEN LET canRow == x = s.start[1] + 1 /\ y = s.start[2]
             canCol == x = s.start[1] /\ y = s.start[2] + 1
         IN  IF ~canRow /\ ~canCol THEN s
             ELSE IF canRow THEN appendFromRack(setDirection(s, "row"), rackIndex)
             ELSE appendFromRack(setDirection(s, "col"), rackIndex)
    ELSE IF s.direction = "row" /\ y # s.start[2] THEN s
    ELSE IF s.direction = "col" /\ x # s.start[1] THEN s
    ELSE appendFromRack(s, rackIndex)

\* Mutant of handleDrop: a cell that holds a letter takes a drop like an
\* empty one.
handleDrop_ontoOccupied(s, x, y, rackIndex) ==
    IF s.board = NoBoard THEN s
    ELSE IF rackIndex = NoIndex THEN s
    ELSE IF s.start = NoStart \/ Len(s.word) = 0
    THEN appendFromRack(setStart(s, x, y), rackIndex)
    ELSE IF Len(s.word) = 1
    THEN LET canRow == x = s.start[1] + 1 /\ y = s.start[2]
             canCol == x = s.start[1] /\ y = s.start[2] + 1
         IN  IF ~canRow /\ ~canCol THEN s
             ELSE IF canRow THEN appendFromRack(setDirection(s, "row"), rackIndex)
             ELSE appendFromRack(setDirection(s, "col"), rackIndex)
    ELSE LET nextX == IF s.direction = "row" THEN s.start[1] + Len(s.word)
                      ELSE s.start[1]
             nextY == IF s.direction = "col" THEN s.start[2] + Len(s.word)
                      ELSE s.start[2]
         IN  IF x # nextX \/ y # nextY THEN s
             ELSE appendFromRack(s, rackIndex)

\* Board.tsx handleDrop for the cell (x, y); rackIndex is the index carried
\* by the drag, NoIndex when the drag carries none.
handleDrop(s, x, y, rackIndex) ==
    IF s.board = NoBoard THEN s
    ELSE IF s.board[y + 1][x + 1] # "." THEN s
    ELSE IF rackIndex = NoIndex THEN s
    ELSE IF s.start = NoStart \/ Len(s.word) = 0
    THEN appendFromRack(setStart(s, x, y), rackIndex)
    ELSE IF Len(s.word) = 1
    THEN LET canRow == x = s.start[1] + 1 /\ y = s.start[2]
             canCol == x = s.start[1] /\ y = s.start[2] + 1
         IN  IF ~canRow /\ ~canCol THEN s
             ELSE IF canRow THEN appendFromRack(setDirection(s, "row"), rackIndex)
             ELSE appendFromRack(setDirection(s, "col"), rackIndex)
    ELSE LET nextX == IF s.direction = "row" THEN s.start[1] + Len(s.word)
                      ELSE s.start[1]
             nextY == IF s.direction = "col" THEN s.start[2] + Len(s.word)
                      ELSE s.start[2]
         IN  IF x # nextX \/ y # nextY THEN s
             ELSE appendFromRack(s, rackIndex)

\* PlaceWordControls.tsx, the arrow-key branch of the keydown handler.
arrowKey(s, key) ==
    LET boardSize == IF s.board = NoBoard THEN DefaultBoardSize ELSE Len(s.board)
        x0 == IF s.start # NoStart THEN s.start[1] ELSE Floor2(boardSize)
        y0 == IF s.start # NoStart THEN s.start[2] ELSE Floor2(boardSize)
        x == CASE key = "ArrowLeft" /\ x0 > 0 -> x0 - 1
               [] key = "ArrowRight" /\ x0 < boardSize - 1 -> x0 + 1
               [] OTHER -> x0
        y == CASE key = "ArrowUp" /\ y0 > 0 -> y0 - 1
               [] key = "ArrowDown" /\ y0 < boardSize - 1 -> y0 + 1
               [] OTHER -> y0
    IN  IF boardSize = 0 THEN s ELSE setStart(s, x, y)

\* Mutant of keydown: Enter submits without looking at canSubmit.
keydown_enterUngated(s, key, isInput, modifier) ==
    IF s.exchanging THEN s
    ELSE IF key = "Enter"
    THEN IF isInput THEN s ELSE place(s)
    ELSE IF key = "Backspace"
    THEN IF isInput THEN s ELSE backspaceWord(s)
    ELSE IF ~isInput /\ key = " "
    THEN setDirection(s, IF s.direction = "row" THEN "col" ELSE "row")
    ELSE IF ~isInput /\ key \in {"ArrowUp", "ArrowDown", "ArrowLeft", "ArrowRight"}
    THEN arrowKey(s, key)
    ELSE IF ~isInput /\ s.start # NoStart /\ key \in {"a", "A", "b", "B"}
            /\ ~modifier
    THEN appendFromKeyboard(s, key)
    ELSE s

\* PlaceWordControls.tsx, the global keydown handler.  isInput: the event
\* target is an input or a textarea; modifier: alt, ctrl or meta is held.
keydown(s, key, isInput, modifier) ==
    IF s.exchanging THEN s
    ELSE IF key = "Enter"
    THEN IF isInput \/ ~canSubmit(s) THEN s ELSE place(s)
    ELSE IF key = "Backspace"
    THEN IF isInput THEN s ELSE backspaceWord(s)
    ELSE IF ~isInput /\ key = " "
    THEN setDirection(s, IF s.direction = "row" THEN "col" ELSE "row")
    ELSE IF ~isInput /\ key \in {"ArrowUp", "ArrowDown", "ArrowLeft", "ArrowRight"}
    THEN arrowKey(s, key)
    ELSE IF ~isInput /\ s.start # NoStart /\ key \in {"a", "A", "b", "B"}
            /\ ~modifier
    THEN appendFromKeyboard(s, key)
    ELSE s

\* Rack handleClick on the tile at rack index idx.
handleClick(s, idx) ==
    IF s.exchanging THEN toggleExchangeIndex(s, idx)
    ELSE IF idx \notin Range(s.wordRackIndices) THEN appendFromRack(s, idx)
    ELSE s

\* PlaceWordControls.tsx, the effect that seeds the anchor with the centre.
autoCentre(s) ==
    IF s.board = NoBoard \/ Len(s.board) = 0 THEN s
    ELSE IF s.start # NoStart THEN s
    ELSE setStart(s, Floor2(Len(s.board)), Floor2(Len(s.board)))

(***************************************************************************)
(* Actions.  Call(op, n): operation op takes the store to n, within the    *)
(* bounds of the model.  The history variables record the invocation and   *)
(* the appends that backspaceWord has not yet undone.                      *)
(***************************************************************************)
nextStack(op, n) ==
    IF op \in {"appendFromRack", "appendFromKeyboard"} /\ n.word # word
    THEN <<<<word, wordRackIndices>>>> \o hStack
    ELSE IF op = "backspaceWord" /\ hStack # <<>> THEN Tail(hStack)
    ELSE <<>>

Call(op, n) ==
    /\ Len(n.word) <= MaxWord
    /\ NumCalls(n.calls) <= MaxInflight
    /\ Commit(n)
    /\ hStack' = nextStack(op, n)

Init ==
    /\ gameId = InitStore.gameId
    /\ board = InitStore.board
    /\ currentPlayer = InitStore.currentPlayer
    /\ hands = InitStore.hands
    /\ loading = InitStore.loading
    /\ error = InitStore.error
    /\ start = InitStore.start
    /\ direction = InitStore.direction
    /\ word = InitStore.word
    /\ wordRackIndices = InitStore.wordRackIndices
    /\ exchanging = InitStore.exchanging
    /\ exchangeSelection = InitStore.exchangeSelection
    /\ calls = InitStore.calls
    /\ lastCall = <<"init", "">>
    /\ hStack = <<>>

LoadGame ==
    \E gid \in GameIds :
        /\ lastCall' = <<"loadGame", "">>
        /\ Call("loadGame", loadGame(S, gid))

Refresh ==
    /\ lastCall' = <<"refresh", "">>
    /\ Call("refresh", refresh(S))

LoadGameDone ==
    \E srv \in ServerStates :
        /\ calls["load"] > 0
        /\ lastCall' = <<"loadGameDone", "">>
        /\ Call("loadGameDone", loadGameDone(S, srv))

LoadGameFailed ==
    /\ calls["load"] > 0
    /\ lastCall' = <<"loadGameFailed", "">>
    /\ Call("loadGameFailed", loadGameFailed(S))

SetStart ==
    \E x \in Coords, y \in Coords :
        /\ lastCall' = <<"setStart", "">>
        /\ Call("setStart", setStart(S, x, y))

SetDirection ==
    \E d \in {"row", "col"} :
        /\ lastCall' = <<"setDirection", "">>
        /\ Call("setDirection", setDirection(S, d))

SetWord ==
    \E w \in WordInputs :
        /\ lastCall' = <<"setWord", "">>
        /\ Call("setWord", setWord(S, w))

Clear ==
    /\ lastCall' = <<"clear", "">>
    /\ Call("clear", clear(S))

Place ==
    /\ lastCall' = <<"place", "">>
    /\ Call("place", place(S))

PlaceSettled ==
    \E res \in Results :
        /\ calls["place"] > 0
        /\ lastCall' = <<"placeSettled", res>>
        /\ Call("placeSettled", placeSettled(S, res))

SkipTurn ==
    /\ lastCall' = <<"skipTurn", "">>
    /\ Call("skipTurn", skipTurn(S))

SkipTurnSettled ==
    \E res \in Results :
        /\ calls["skip"] > 0
        /\ lastCall' = <<"skipTurnSettled", res>>
        /\ Call("skipTurnSettled", skipTurnSettled(S, res))

StartExchange ==
    /\ lastCall' = <<"startExchange", "">>
    /\ Call("startExchange", startExchange(S))

ToggleExchangeIndex ==
    \E i \in RackIdx :
        /\ lastCall' = <<"toggleExchangeIndex", "">>
        /\ Call("toggleExchangeIndex", toggleExchangeIndex(S, i))

CancelExchange ==
    /\ lastCall' = <<"cancelExchange", "">>
    /\ Call("cancelExchange", cancelExchange(S))

ConfirmExchange ==
    /\ lastCall' = <<"confirmExchange", "">>
    /\ Call("confirmExchange", confirmExchange(S))

ConfirmExchangeSettled ==
    \E res \in Results :
        /\ calls["exchange"] > 0
        /\ lastCall' = <<"confirmExchangeSettled", res>>
        /\ Call("confirmExchangeSettled", confirmExchangeSettled(S, res))

AppendFromRack ==
    \E i \in RackIdx :
        /\ lastCall' = <<"appendFromRack", "">>
        /\ Call("appendFromRack", appendFromRack(S, i))

AppendFromKeyboard ==
    \E l \in KeyLetters :
        /\ lastCall' = <<"appendFromKeyboard", "">>
        /\ Call("appendFromKeyboard", appendFromKeyboard(S, l))

BackspaceWord ==
    /\ lastCall' = <<"backspaceWord", "">>
    /\ Call("backspaceWord", backspaceWord(S))

PlaceLetterPreview ==
    \E x \in Coords, y \in Coords, l \in KeyLetters, i \in DropData :
        \* the letter is read only when no rack index is given
        /\ i # NoIndex => l = "a"
        /\ lastCall' = <<"placeLetterPreview", "">>
        /\ Call("placeLetterPreview", placeLetterPreview(S, x, y, l, i))

\* A drop needs a rendered board.
HandleDrop ==
    \E x \in Coords, y \in Coords, i \in DropData :
        /\ board # NoBoard
        /\ lastCall' = <<"handleDrop", "">>
        /\ Call("handleDrop", handleDrop(S, x, y, i))

\* The arrow keys are modelled once the board is loaded, which keeps the
\* anchor within the BoardN x BoardN cells.
KeyDown ==
    \E key \in Keys, isInput \in BOOLEAN, modifier \in BOOLEAN :
        \* modifiers are read only for letter keys, and only outside inputs
        /\ modifier => key \in KeyLetters /\ ~isInput
        /\ key \in {"ArrowUp", "ArrowDown", "ArrowLeft", "ArrowRight"}
              => board # NoBoard
        /\ lastCall' = <<"keydown", "">>
        /\ Call("keydown", keydown(S, key, isInput, modifier))

\* The rack renders one tile per letter of the current player's rack.
HandleClick ==
    \E i \in RackIdx :
        /\ i + 1 \in DOMAIN rackOf(S)
        /\ lastCall' = <<"handleClick", "">>
        /\ Call("handleClick", handleClick(S, i))

AutoCentre ==
    /\ board # NoBoard
    /\ start = NoStart
    /\ lastCall' = <<"autoCentre", "">>
    /\ Call("autoCentre", autoCentre(S))

Next ==
    \/ LoadGame
    \/ Refresh
    \/ LoadGameDone
    \/ LoadGameFailed
    \/ SetStart
    \/ SetDirection
    \/ SetWord
    \/ Clear
    \/ Place
    \/ PlaceSettled
    \/ SkipTurn
    \/ SkipTurnSettled
    \/ StartExchange
    \/ ToggleExchangeIndex
    \/ CancelExchange
    \/ ConfirmExchange
    \/ ConfirmExchangeSettled
    \/ AppendFromRack
    \/ AppendFromKeyboard
    \/ BackspaceWord
    \/ PlaceLetterPreview
    \/ HandleDrop
    \/ KeyDown
    \/ HandleClick
    \/ AutoCentre

Spec == Init /\ [][Next]_vars

\* The same behaviours when every awaited request is answered or throws in
\* the end: the continuation of each pending request is taken eventually.
FairSpec ==
    /\ Spec
    /\ WF_vars(LoadGameDone \/ LoadGameFailed)
    /\ WF_vars(PlaceSettled)
    /\ WF_vars(SkipTurnSettled)
    /\ WF_vars(ConfirmExchangeSettled)

(***************************************************************************)
(* The store as the page drives it: every operation is a gesture on a      *)
(* rendered control or the continuation of a request.  The route parameter *)
(* does not change while the page is shown, so the effect that loads the   *)
(* game runs once.  Up to MaxPending requests may be in flight.            *)
(***************************************************************************)
Gesture(op, n) ==
    /\ Len(n.word) <= MaxWord
    /\ NumCalls(n.calls) <= MaxPending
    /\ Commit(n)
    /\ hStack' = nextStack(op, n)

\* app/game/[id]/page.tsx, the effect that loads the game of the route.
PageEffect ==
    \E gid \in GameIds :
        /\ gameId = NoGame
        /\ lastCall' = <<"pageEffect", "">>
        /\ Gesture("pageEffect", loadGame(S, gid))

LoadAnswered ==
    \E srv \in ServerStates :
        /\ calls["load"] > 0
        /\ lastCall' = <<"loadGameDone", "">>
        /\ Gesture("loadGameDone", loadGameDone(S, srv))

LoadThrown ==
    /\ calls["load"] > 0
    /\ lastCall' = <<"loadGameFailed", "">>
    /\ Gesture("loadGameFailed", loadGameFailed(S))

SubmitClick ==
    /\ lastCall' = <<"handleSubmit", "">>
    /\ Gesture("handleSubmit", handleSubmit(S))

PlaceAnswered ==
    \E res \in Results :
        /\ calls["place"] > 0
        /\ lastCall' = <<"placeSettled", res>>
        /\ Gesture("placeSettled", placeSettled(S, res))

SkipClick ==
    /\ canSkip(S)
    /\ lastCall' = <<"skipClick", "">>
    /\ Gesture("skipClick", skipClick(S))

SkipAnswered ==
    \E res \in Results :
        /\ calls["skip"] > 0
        /\ lastCall' = <<"skipTurnSettled", res>>
        /\ Gesture("skipTurnSettled", skipTurnSettled(S, res))

ExchangeClick ==
    /\ ~(loading \/ (exchanging /\ ~canConfirmExchange(S)))
    /\ lastCall' = <<"exchangeClick", "">>
    /\ Gesture("exchangeClick", exchangeClick(S))

ExchangeAnswered ==
    \E res \in Results :
        /\ calls["exchange"] > 0
        /\ lastCall' = <<"confirmExchangeSettled", res>>
        /\ Gesture("confirmExchangeSettled", confirmExchangeSettled(S, res))

\* The cancel control is rendered in exchange mode only.
CancelClick ==
    /\ exchanging
    /\ lastCall' = <<"cancelExchange", "">>
    /\ Gesture("cancelExchange", cancelExchange(S))

BackspaceClick ==
    /\ lastCall' = <<"backspaceWord", "">>
    /\ Gesture("backspaceWord", backspaceWord(S))

DirectionRadio ==
    \E d \in {"row", "col"} :
        /\ lastCall' = <<"setDirection", "">>
        /\ Gesture("setDirection", setDirection(S, d))

\* Board.tsx, a click on the cell (x, y) of the rendered board.
CellClick ==
    \E x \in Coords, y \in Coords :
        /\ board # NoBoard
        /\ lastCall' = <<"setStart", "">>
        /\ Gesture("setStart", setStart(S, x, y))

CellDrop ==
    \E x \in Coords, y \in Coords, i \in DropData :
        /\ board # NoBoard
        /\ lastCall' = <<"handleDrop", "">>
        /\ Gesture("handleDrop", handleDrop(S, x, y, i))

KeyPress ==
    \E key \in Keys, isInput \in BOOLEAN, modifier \in BOOLEAN :
        /\ modifier => key \in KeyLetters /\ ~isInput
        /\ key \in {"ArrowUp", "ArrowDown", "ArrowLeft", "ArrowRight"}
              => board # NoBoard
        /\ lastCall' = <<"keydown", "">>
        /\ Gesture("keydown", keydown(S, key, isInput, modifier))

TileClick ==
    \E i \in RackIdx :
        /\ i + 1 \in DOMAIN rackOf(S)
        /\ lastCall' = <<"handleClick", "">>
        /\ Gesture("handleClick", handleClick(S, i))

CentreEffect ==
    /\ board # NoBoard
    /\ start = NoStart
    /\ lastCall' = <<"autoCentre", "">>
    /\ Gesture("autoCentre", autoCentre(S))

PageNext ==
    \/ PageEffect
    \/ LoadAnswered
    \/ LoadThrown
    \/ SubmitClick
    \/ PlaceAnswered
    \/ SkipClick
    \/ SkipAnswered
    \/ ExchangeClick
    \/ ExchangeAnswered
    \/ CancelClick
    \/ BackspaceClick
    \/ DirectionRadio
    \/ CellClick
    \/ CellDrop
    \/ KeyPress
    \/ TileClick
    \/ CentreEffect

PageSpec == Init /\ [][PageNext]_vars

(***************************************************************************)
(* Properties.                                                             *)
(***************************************************************************)
LastOp == lastCall[1]
LastOutcome == lastCall[2]
UsedIndices == Range(wordRackIndices) \ {NoIndex}

\* C1: in every reachable state the composed word and the letter-source
\* list wordRackIndices have the same length.
C1_SameLength == Len(word) = Len(wordRackIndices)

\* C1 witness: a word built by setWord and extended from the rack.
C1_Witness ==
    /\ Len(word) = MaxWord
    /\ NoIndex \in Range(wordRackIndices)
    /\ UsedIndices # {}

\* C2 (as claimed): exchange mode and a non-empty composed word never
\* overlap.
C2_Claimed == ~(exchanging /\ Len(word) > 0)

\* C3: startExchange called while the word is non-empty changes no state,
\* and appendFromRack or appendFromKeyboard called in exchange mode changes
\* no state.
C3_RejectedCallsChangeNothing ==
    [][ /\ (LastOp' = "startExchange" /\ Len(word) > 0)
            => UNCHANGED storeVars
        /\ (LastOp' \in {"appendFromRack", "appendFromKeyboard"} /\ exchanging)
            => UNCHANGED storeVars ]_vars

\* C3 witness: startExchange was called on a word in progress, outside
\* exchange mode.
C3_Witness == LastOp = "startExchange" /\ Len(word) > 0 /\ ~exchanging

\* C4 (as claimed): an appendFromRack call that changes the state appends a
\* rack index that was not yet in wordRackIndices, i.e. appendFromRack(i)
\* with i already present is a no-op.
C4_Claimed ==
    [][ (LastOp' = "appendFromRack" /\ wordRackIndices' # wordRackIndices)
          => wordRackIndices'[Len(wordRackIndices')] \notin UsedIndices ]_vars

\* C5 (as claimed): with a non-empty word and an anchor set, the anchor
\* changes only through clear, an accepted submission, skipTurn or an
\* accepted exchange; setStart, placeLetterPreview, drops and keys leave it.
C5_Claimed ==
    [][ (Len(word) > 0 /\ start # NoStart /\ start' # start)
          => \/ LastOp' \in {"clear", "skipTurn"}
             \/ lastCall' = <<"placeSettled", "ok">>
             \/ lastCall' = <<"confirmExchangeSettled", "ok">> ]_vars

\* Result of a drop that appends the letter of rack index i and changes
\* nothing else but the direction, which becomes d.
Appended(n, i, d) ==
    /\ i + 1 \in DOMAIN rackOf(S)
    /\ n = [S EXCEPT !.word = Append(word, toUpperCase(rackOf(S)[i + 1])),
                     !.wordRackIndices = Append(wordRackIndices, i),
                     !.direction = d, !.error = NoError]

\* C6: with an anchor set and exactly one letter composed, a drop on a cell
\* that is neither one step right of nor one step below the anchor changes
\* nothing, and a drop that changes the word is a drop on one of these two
\* cells, after which the direction is row resp. col, the letter is
\* appended and the anchor is where it was.
C6_SecondLetter ==
    (board # NoBoard /\ start # NoStart /\ Len(word) = 1) =>
      \A x \in Coords, y \in Coords, i \in DropData :
        LET n == handleDrop(S, x, y, i)
            right == x = start[1] + 1 /\ y = start[2]
            below == x = start[1] /\ y = start[2] + 1
        IN  /\ (~right /\ ~below) => n = S
            /\ n.word # word =>
                 \/ right /\ Appended(n, i, "row")
                 \/ below /\ Appended(n, i, "col")

\* C6 witness: a drop has just appended the second letter below the anchor.
C6_Witness ==
    /\ LastOp = "handleDrop"
    /\ Len(word) = 2
    /\ start # NoStart
    /\ direction = "col"

\* C7: with an anchor set and two or more letters composed, a drop on any
\* cell other than anchor + Len(word) steps along the direction changes
\* nothing, and a drop that changes the state appends exactly one letter at
\* that cell.
C7_SequentialExtension ==
    (board # NoBoard /\ start # NoStart /\ Len(word) >= 2) =>
      \A x \in Coords, y \in Coords, i \in DropData :
        LET n == handleDrop(S, x, y, i)
            next == IF direction = "row" THEN <<start[1] + Len(word), start[2]>>
                    ELSE <<start[1], start[2] + Len(word)>>
        IN  /\ <<x, y>> # next => n = S
            /\ n # S => <<x, y>> = next /\ Appended(n, i, direction)

\* C7 witness: a drop has just appended the third letter.
C7_Witness ==
    /\ LastOp = "handleDrop"
    /\ Len(word) = 3
    /\ start # NoStart

\* C8: backspaceWord right after a run of successful appends restores word
\* and letter sources to what they were before the last append of the run
\* (so n appends and n backspaces restore the word the run started from),
\* and backspaceWord on an empty word changes nothing.
C8_BackspaceUndoesAppend ==
    [][ LastOp' = "backspaceWord" =>
          /\ hStack # <<>> => <<word', wordRackIndices'>> = Head(hStack)
          /\ Len(word) = 0 => UNCHANGED storeVars ]_vars

\* C8 witness: two appends, then a backspace.
C8_Witness ==
    /\ LastOp = "backspaceWord"
    /\ Len(hStack) = 1
    /\ Len(word) = Len(hStack[1][1]) + 1

\* C9: backspaceWord never changes direction or anchor.
C9_BackspaceKeepsDirection ==
    [][ LastOp' = "backspaceWord" => direction' = direction /\ start' = start ]_vars

\* C9 witness: a backspace has just shortened a two-letter column word to
\* one letter.
C9_Witness ==
    /\ LastOp = "backspaceWord"
    /\ Len(hStack) = 1
    /\ Len(word) = 1
    /\ direction = "col"
    /\ start # NoStart

C11_ClearIdempotent == clear(clear(S)) = clear(S)

\* C11 witness: a state with an anchor and two letters of which one comes
\* from the rack, where a first clear() changes the state.
C11_Witness ==
    /\ Len(word) >= 2
    /\ UsedIndices # {}
    /\ start # NoStart
    /\ clear(S) # S

\* C12 (as claimed): a setDirection call made while two or more letters are
\* composed leaves the direction as it was.
C12_Claimed ==
    [][ (LastOp' = "setDirection" /\ Len(word) >= 2)
          => direction' = direction ]_vars

\* C12 (amended): setDirection(d) takes effect whatever the number of letters
\* composed: direction becomes d and nothing else changes; the space bar,
\* outside exchange mode and outside input fields, flips the direction and
\* changes nothing else.
C12_DirectionAlwaysSet ==
    /\ \A d \in {"row", "col"} :
         setDirection(S, d) = [S EXCEPT !.direction = d]
    /\ ~exchanging =>
         keydown(S, " ", FALSE, FALSE)
           = [S EXCEPT !.direction = IF direction = "row" THEN "col" ELSE "row"]

\* C12 witness: setDirection has run on a three-letter word whose direction
\* is now col.
C12_Witness ==
    /\ LastOp = "setDirection"
    /\ Len(word) = 3
    /\ direction = "col"

\* The rack indices appendFromKeyboard may take for a letter: the tile is
\* the letter up to case and the index is not among the letter sources.
FreeTiles(letter) ==
    {i \in 0..(Len(rackOf(S)) - 1) :
        /\ toUpperCase(rackOf(S)[i + 1]) = toUpperCase(letter)
        /\ i \notin UsedIndices}

\* C13: outside exchange mode appendFromKeyboard(letter) appends the letter
\* in upper case with, as source, the lowest rack index whose tile is the
\* letter up to case and that is not yet a letter source; when there is no
\* such index (or in exchange mode) the call changes nothing.  A key press
\* that takes effect therefore uses a tile no earlier letter uses.
C13_KeyboardTakesLowestFree ==
    \A letter \in {"a", "A", "b", "B"} :
      LET n == appendFromKeyboard(S, letter)
      IN  IF exchanging \/ FreeTiles(letter) = {} THEN n = S
          ELSE /\ n = [S EXCEPT !.word = Append(word, toUpperCase(letter)),
                                !.wordRackIndices =
                                    Append(wordRackIndices,
                                           Min(FreeTiles(letter))),
                                !.error = NoError]
               /\ Min(FreeTiles(letter)) \notin UsedIndices
               /\ \A i \in FreeTiles(letter) : Min(FreeTiles(letter)) <= i

\* C13 witness: the letter A was typed twice on a rack holding it twice; the
\* presses took tiles 0 and 1, and a third press finds no free tile.
C13_Witness ==
    /\ LastOp = "appendFromKeyboard"
    /\ ~exchanging
    /\ word = <<"A", "A">>
    /\ wordRackIndices = <<0, 1>>
    /\ FreeTiles("a") = {}
    /\ appendFromKeyboard(S, "a") = S

\* The cell letter index i of the word is aimed at, and whether it lies on
\* the board, by the board's own numbers of rows and columns.
Target(i) ==
    IF direction = "row" THEN <<start[1] + i, start[2]>>
    ELSE <<start[1], start[2] + i>>
InBoard(c) ==
    /\ c[1] >= 0
    /\ c[2] >= 0
    /\ c[2] < Len(board)
    /\ c[1] < (IF Len(board) > 0 THEN Len(board[1]) ELSE 0)
CellAt(c) == board[c[2] + 1][c[1] + 1]
WordIdx == 0..(Len(word) - 1)
Verdict == previewStatus(S)

\* A 15 x 15 empty board with a row word of n letters anchored at (13, 7).
Example15(n) ==
    [InitStore EXCEPT
        !.board = [y \in 1..DefaultBoardSize |->
                     [x \in 1..DefaultBoardSize |-> "."]],
        !.currentPlayer = 0,
        !.hands = << <<"A", "A", "A", "A">> >>,
        !.start = <<13, 7>>,
        !.direction = "row",
        !.word = [i \in 1..n |-> "A"],
        !.wordRackIndices = [i \in 1..n |-> i - 1]]

\* C14: with a board and an anchor, the verdict reports overflow exactly
\* when some letter index of the word is aimed at a cell outside the board,
\* the bounds being the board's own dimensions; on a 15 x 15 board with
\* anchor (13, 7) and direction row, four letters overflow and two fit.
C14_OverflowIffOutside ==
    /\ (board # NoBoard /\ start # NoStart) =>
         (Verdict.overflow <=> \E i \in WordIdx : ~InBoard(Target(i)))
    /\ previewStatus(Example15(4)).overflow
    /\ ~previewStatus(Example15(2)).overflow
    /\ previewStatus(Example15(2)).ok

\* C14 witness: a three-letter word whose last letter alone is aimed outside
\* the board, after a two-letter one that fitted.
C14_Witness ==
    /\ board # NoBoard
    /\ start # NoStart
    /\ Len(word) = 3
    /\ InBoard(Target(1))
    /\ ~InBoard(Target(2))
    /\ Verdict.overflow
    /\ ~previewStatus([S EXCEPT !.word = AllButLast(@)]).overflow

\* C15: with a board and an anchor, the verdict reports a conflict exactly
\* when some letter of the word is aimed at a cell of the board that holds a
\* letter other than that letter (compared in upper case); a word through an
\* occupied cell holding its own letter reports none.
C15_ConflictIffMismatch ==
    (board # NoBoard /\ start # NoStart) =>
      (Verdict.conflict <=>
         \E i \in WordIdx :
            /\ InBoard(Target(i))
            /\ CellAt(Target(i)) # "."
            /\ toUpperCase(CellAt(Target(i))) # toUpperCase(word[i + 1]))

\* C15 witness: the word AB runs through an occupied cell with the letter
\* the cell holds and there is no conflict, while AA on the same cells has
\* one.
C15_Witness ==
    /\ board # NoBoard
    /\ start # NoStart
    /\ word = <<"A", "B">>
    /\ InBoard(Target(1))
    /\ CellAt(Target(1)) = "b"
    /\ ~Verdict.conflict
    /\ previewStatus([S EXCEPT !.word = <<"A", "A">>]).conflict

\* Letters of the word aimed at an empty cell of the board, tiles of the
\* rack, and the count the verdict reports missing, per letter.
PlacedCount(letter) ==
    Cardinality({i \in WordIdx :
                    /\ InBoard(Target(i))
                    /\ CellAt(Target(i)) = "."
                    /\ toUpperCase(word[i + 1]) = letter})
HeldCount(letter) ==
    Cardinality({j \in DOMAIN rackOf(S) : toUpperCase(rackOf(S)[j]) = letter})
MissingEntries(v, letter) == {k \in DOMAIN v.missing : v.missing[k][1] = letter}
MissingCount(v, letter) ==
    IF MissingEntries(v, letter) = {} THEN 0
    ELSE v.missing[CHOOSE k \in MissingEntries(v, letter) : TRUE][2]

\* Rack A, A, B on an empty board with the row word w anchored at (0, 0).
ExampleRack(w) ==
    [InitStore EXCEPT
        !.board = EmptyBoard,
        !.currentPlayer = 0,
        !.hands = << <<"A", "A", "B">> >>,
        !.start = <<0, 0>>,
        !.direction = "row",
        !.word = w,
        !.wordRackIndices = [i \in 1..Len(w) |-> NoIndex]]

\* C16: with a board, an anchor and a word, the verdict lists each letter at
\* most once, with the number of letters of the word of that kind aimed at
\* an empty cell minus the number of rack tiles of that kind when that is
\* positive, and does not list it otherwise; letters on an occupied cell
\* take no tile.  With rack A, A, B the word AAB misses nothing and is ok,
\* and AAA misses A once.
C16_MissingIsShortfall ==
    /\ (board # NoBoard /\ start # NoStart /\ Len(word) > 0) =>
         \A letter \in {"A", "B"} :
            LET short == PlacedCount(letter) - HeldCount(letter)
            IN  /\ Cardinality(MissingEntries(Verdict, letter)) <= 1
                /\ MissingCount(Verdict, letter) = IF short > 0 THEN short ELSE 0
                /\ (MissingEntries(Verdict, letter) # {}) <=> short > 0
    /\ previewStatus(ExampleRack(<<"A", "A", "B">>)).missing = <<>>
    /\ previewStatus(ExampleRack(<<"A", "A", "B">>)).ok
    /\ previewStatus(ExampleRack(<<"A", "A", "A">>)).missing = << <<"A", 1>> >>

\* C16 witness: rack a, A; the word AAA on three empty cells misses A once.
C16_Witness ==
    /\ board # NoBoard
    /\ start # NoStart
    /\ word = <<"A", "A", "A">>
    /\ HeldCount("A") = 2
    /\ PlacedCount("A") = 3
    /\ Verdict.missing = << <<"A", 1>> >>

\* C17 (as claimed): in every state the verdict has
\* ok = (no overflow, no conflict, nothing missing).
C17_Claimed ==
    Verdict.ok <=>
      (~Verdict.overflow /\ ~Verdict.conflict /\ Verdict.missing = <<>>)

\* C17 (amended): with a board, an anchor and a non-empty word the verdict
\* has ok = (no overflow, no conflict, nothing missing); without a board,
\* without an anchor or with an empty word the verdict is ok = false with no
\* overflow, no conflict and nothing missing.
C17_OkWhenComposed ==
    IF board # NoBoard /\ start # NoStart /\ Len(word) > 0
    THEN Verdict.ok <=>
           (~Verdict.overflow /\ ~Verdict.conflict /\ Verdict.missing = <<>>)
    ELSE Verdict = [ok |-> FALSE, overflow |-> FALSE, conflict |-> FALSE,
                    missing |-> <<>>]

\* C17 witness: the Enter key has found the verdict ok and submitted the
\* word.
C17_Witness ==
    /\ LastOp = "keydown"
    /\ calls["place"] = 1
    /\ Verdict.ok
    /\ Len(word) = 2

C19_AcceptedMoveResets ==
    [][ lastCall' = <<"placeSettled", "ok">> =>
          /\ word' = <<>>
          /\ wordRackIndices' = <<>>
          /\ start' = NoStart
          /\ calls'["place"] = calls["place"] - 1
          /\ calls'["load"] = calls["load"] + 1
          /\ loading' ]_vars

\* C19 witness: a move was accepted; the composer is empty and the refresh
\* is under way.
C19_Witness ==
    /\ lastCall = <<"placeSettled", "ok">>
    /\ word = <<>>
    /\ wordRackIndices = <<>>
    /\ start = NoStart
    /\ calls["load"] = 1
    /\ loading

\* C20: when a submission (place, skipTurn, confirmExchange) is answered
\* 'failed' or its request throws, handling the answer leaves anchor,
\* direction, word and letter sources, and every other field but error and
\* loading, as they were when the request was issued and no input came in
\* between; error is set and loading is cleared.
C20_RejectionKeepsComposer ==
    [][ ( /\ LastOp' \in {"placeSettled", "skipTurnSettled",
                          "confirmExchangeSettled"}
          /\ LastOutcome' \in {"failed", "throw"} )
          => /\ UNCHANGED <<start, direction, word, wordRackIndices>>
             /\ UNCHANGED <<gameId, board, currentPlayer, hands, exchanging,
                            exchangeSelection>>
             /\ error' = "message"
             /\ loading' = FALSE ]_vars

\* C20 witness: a move was rejected; the two-letter word and its anchor are
\* still there, with the error message.
C20_Witness ==
    /\ lastCall = <<"placeSettled", "failed">>
    /\ Len(word) = 2
    /\ UsedIndices # {}
    /\ start # NoStart
    /\ error = "message"
    /\ ~loading

RefreshOps == {"loadGame", "refresh", "loadGameDone", "loadGameFailed"}

\* C21 (as claimed): a refresh started by loadGame or refresh, not by an
\* accepted move, leaves the word and the letter sources empty when it
\* completes.
C21_Claimed ==
    [][ (LastOp \in {"loadGame", "refresh"} /\ LastOp' = "loadGameDone")
          => word' = <<>> /\ wordRackIndices' = <<>> ]_vars

\* C21 (amended): no step of a refresh (loadGame, refresh, the final write
\* when the requests are answered, the failure of a request) changes the
\* word, the letter sources or the direction.
C21_RefreshKeepsWord ==
    [][ LastOp' \in RefreshOps
          => UNCHANGED <<word, wordRackIndices, direction>> ]_vars

\* C21 witness: a refresh has completed on a loaded game with three letters
\* composed, one of them from the rack.
C21_Witness ==
    /\ LastOp = "loadGameDone"
    /\ board # NoBoard
    /\ Len(word) = 3
    /\ UsedIndices # {}

\* C22: the final write of a refresh leaves the anchor as it is at that
\* moment, whenever it was set: it is not replaced by the board centre nor
\* by a value read earlier.
C22_RefreshKeepsAnchor ==
    [][ LastOp' = "loadGameDone" => start' = start ]_vars

\* C22 witness: a refresh has completed and the anchor is a cell other than
\* the board centre.
C22_Witness ==
    /\ LastOp = "loadGameDone"
    /\ start = <<0, 2>>
    /\ start # <<Floor2(Len(board)), Floor2(Len(board))>>

\* C23: the final write of a refresh keeps the word and its letter sources
\* and sets no error, whatever rack it brings; in the state it leaves, with
\* an anchor and a word, every letter of which more lands on empty cells
\* than the new rack holds is listed as missing with that shortfall, and
\* the verdict is then not ok.
C23_StaleRackShowsInVerdict ==
    /\ [][ LastOp' = "loadGameDone"
             => UNCHANGED <<word, wordRackIndices, error>> ]_vars
    /\ [](( /\ LastOp = "loadGameDone"
            /\ board # NoBoard
            /\ start # NoStart
            /\ Len(word) > 0 ) =>
            \A letter \in {"A", "B"} :
               PlacedCount(letter) > HeldCount(letter) =>
                  /\ MissingCount(Verdict, letter)
                       = PlacedCount(letter) - HeldCount(letter)
                  /\ ~Verdict.ok)

\* C23 witness: the word AA was taken from rack tiles 0 and 1; the refresh
\* brought a rack of one tile, and the verdict misses A once.
C23_Witness ==
    /\ LastOp = "loadGameDone"
    /\ word = <<"A", "A">>
    /\ wordRackIndices = <<0, 1>>
    /\ Len(rackOf(S)) = 1
    /\ error = NoError
    /\ Verdict.missing = << <<"A", 1>> >>
    /\ ~Verdict.ok

\* C24: the submit control and the Enter key issue a move request only when
\* the anchor is set, the word is non-empty, exchange mode is off, nothing
\* is loading and the verdict is ok; and setStart, setDirection,
\* backspaceWord, appendFromRack and appendFromKeyboard take effect whether
\* or not the verdict is ok.
C24_VerdictGatesSubmissionOnly ==
    /\ \A n \in {handleSubmit(S)}
                  \cup {keydown(S, "Enter", i, FALSE) : i \in BOOLEAN} :
         n.calls["place"] > calls["place"] =>
            /\ start # NoStart
            /\ Len(word) > 0
            /\ ~exchanging
            /\ ~loading
            /\ Verdict.ok
    /\ \A x \in Coords, y \in Coords : setStart(S, x, y).start = <<x, y>>
    /\ \A d \in {"row", "col"} : setDirection(S, d).direction = d
    /\ Len(word) > 0 => backspaceWord(S).word = AllButLast(word)
    /\ ~exchanging =>
         /\ \A i \in RackIdx :
              i + 1 \in DOMAIN rackOf(S) =>
                 appendFromRack(S, i).word
                    = Append(word, toUpperCase(rackOf(S)[i + 1]))
         /\ \A letter \in KeyLetters :
              FreeTiles(letter) # {} =>
                 appendFromKeyboard(S, letter).word
                    = Append(word, toUpperCase(letter))

\* C24 witness: a second letter was appended from the rack to a word whose
\* verdict was not ok, and the verdict still is not ok: Enter and the submit
\* control issue nothing.
C24_Witness ==
    /\ LastOp = "appendFromRack"
    /\ board # NoBoard
    /\ start # NoStart
    /\ gameId # NoGame
    /\ ~loading
    /\ Len(word) = 2
    /\ ~previewStatus([S EXCEPT !.word = AllButLast(@),
                                !.wordRackIndices = AllButLast(@)]).ok
    /\ ~Verdict.ok
    /\ handleSubmit(S) = S
    /\ keydown(S, "Enter", FALSE, FALSE) = S

\* C25: when confirmExchange handles an acknowledged exchange, exchange mode
\* is off and the selection empty afterwards; when it handles a rejection
\* or a thrown request, exchanging and exchangeSelection keep their values,
\* so an exchange mode that was on stays on.
C25_ExchangeOutcome ==
    [][ LastOp' = "confirmExchangeSettled" =>
          IF LastOutcome' = "ok"
          THEN ~exchanging' /\ exchangeSelection' = <<>>
          ELSE /\ UNCHANGED <<exchanging, exchangeSelection>>
               /\ exchanging => exchanging' ]_vars

\* C25 witness: an exchange of two selected tiles was rejected; the mode and
\* the selection are still there.
C25_Witness ==
    /\ lastCall = <<"confirmExchangeSettled", "failed">>
    /\ exchanging
    /\ Len(exchangeSelection) = 2
    /\ error = "message"

\* C26: in exchange mode toggleExchangeIndex(i) changes the selection only,
\* to the selected set plus i when i was absent and minus i when it was
\* present; the selection never holds an index twice, and toggling the same
\* index twice gives back the same set.
C26_ToggleKeepsSet ==
    /\ Cardinality(Range(exchangeSelection)) = Len(exchangeSelection)
    /\ exchanging =>
         \A i \in RackIdx :
            LET n == toggleExchangeIndex(S, i)
                sel == Range(exchangeSelection)
            IN  /\ n = [S EXCEPT !.exchangeSelection = n.exchangeSelection]
                /\ Range(n.exchangeSelection)
                     = IF i \in sel THEN sel \ {i} ELSE sel \cup {i}
                /\ Cardinality(Range(n.exchangeSelection))
                     = Len(n.exchangeSelection)
                /\ Range(toggleExchangeIndex(n, i).exchangeSelection) = sel

\* C26 witness: two indices are selected after a toggle, and toggling one of
\* them leaves the other.
C26_Witness ==
    /\ LastOp = "toggleExchangeIndex"
    /\ exchanging
    /\ exchangeSelection = <<1, 0>>
    /\ toggleExchangeIndex(S, 1).exchangeSelection = <<0>>

\* C27: cancelExchange leaves exchange mode off and the selection empty and
\* changes nothing else: board, racks, anchor, direction, word, letter
\* sources, error and loading are as before and no request is issued.
C27_CancelOnlyLeavesExchange ==
    [][ LastOp' = "cancelExchange" =>
          /\ ~exchanging'
          /\ exchangeSelection' = <<>>
          /\ UNCHANGED <<gameId, board, currentPlayer, hands, loading, error,
                         start, direction, word, wordRackIndices, calls>> ]_vars

\* C27 witness: cancelExchange has run on a loaded game with an anchor and
\* an error message on display.
C27_Witness ==
    /\ LastOp = "cancelExchange"
    /\ ~exchanging
    /\ exchangeSelection = <<>>
    /\ board # NoBoard
    /\ start # NoStart
    /\ error = "message"

\* C28: clear() called while a place request is pending empties word,
\* letter sources and anchor at once and leaves the request pending; and
\* when the response of a place request is handled on an empty word, word
\* and letter sources are empty afterwards, whatever the response.
C28_ClearDuringSubmission ==
    [][ /\ (LastOp' = "clear" /\ calls["place"] > 0) =>
               /\ word' = <<>>
               /\ wordRackIndices' = <<>>
               /\ start' = NoStart
               /\ calls' = calls
        /\ (LastOp' = "placeSettled" /\ word = <<>> /\ wordRackIndices = <<>>) =>
               /\ word' = <<>>
               /\ wordRackIndices' = <<>> ]_vars

\* C28 witness: clear() has just run with a place request pending.
C28_Witness ==
    /\ LastOp = "clear"
    /\ calls["place"] = 1
    /\ loading
    /\ word = <<>>
    /\ start = NoStart

\* C29: setStart, setDirection, setWord, appendFromRack, appendFromKeyboard,
\* placeLetterPreview, backspaceWord, clear, startExchange,
\* toggleExchangeIndex and cancelExchange leave board and hands unchanged;
\* board and hands change only in the final write of a refresh.
C29_OnlyRefreshReplacesSnapshots ==
    [][ /\ LastOp' \in {"setStart", "setDirection", "setWord", "appendFromRack",
                        "appendFromKeyboard", "placeLetterPreview",
                        "backspaceWord", "clear", "startExchange",
                        "toggleExchangeIndex", "cancelExchange"}
            => UNCHANGED <<board, hands>>
        /\ (board' # board \/ hands' # hands) => LastOp' = "loadGameDone" ]_vars

\* C29 witness: placeLetterPreview has composed a letter from the rack on a
\* loaded board.
C29_Witness ==
    /\ LastOp = "placeLetterPreview"
    /\ board # NoBoard
    /\ Len(word) = 1
    /\ UsedIndices # {}
    /\ start # NoStart

\* C30 (as claimed): in every reachable state a non-empty word implies that
\* the anchor is set.
C30_Claimed == Len(word) > 0 => start # NoStart

\* C31: the letters confirmExchange sends are the rack letters at the
\* selected indices that hold a letter, one per such index and in the order
\* of selection; when there is no game, exchange mode is off, the selection
\* is empty or no selected index holds a letter, confirmExchange changes
\* nothing and issues no request, and otherwise it issues one exchange
\* request, sets loading and clears the error, and changes nothing else.
C31_ExchangeSendsSelection ==
    LET rack == rackOf(S)
        sel == exchangeSelection
        valid == {k \in DOMAIN sel : sel[k] + 1 \in DOMAIN rack}
        sent == exchangeLetters(S)
        refused == \/ gameId = NoGame
                   \/ ~exchanging
                   \/ sel = <<>>
                   \/ valid = {}
    IN  /\ Len(sent) = Cardinality(valid)
        /\ \A k \in valid :
              sent[Cardinality({j \in valid : j <= k})] = rack[sel[k] + 1]
        /\ refused => confirmExchange(S) = S
        /\ ~refused =>
              confirmExchange(S)
                = [S EXCEPT !.loading = TRUE, !.error = NoError,
                            !.calls["exchange"] = @ + 1]

\* C31 witness: an exchange request has been issued for the selection 1, 0
\* of a rack of two tiles, whose letters go out in that order.
C31_Witness ==
    /\ LastOp = "confirmExchange"
    /\ calls["exchange"] = 1
    /\ loading
    /\ exchangeSelection = <<1, 0>>
    /\ Len(rackOf(S)) = 2
    /\ exchangeLetters(S) = <<rackOf(S)[2], rackOf(S)[1]>>

\* C32: a skipTurn call on a known game leaves word and letter sources empty
\* and the anchor unset in the step that issues the skip request; handling
\* the response changes none of the three, so they are still empty when the
\* response follows the call directly, whatever the outcome; and a refresh
\* is started when the skip is accepted and in no other case.
C32_SkipDropsPreviewFirst ==
    [][ /\ (LastOp' = "skipTurn" /\ gameId # NoGame) =>
               /\ word' = <<>>
               /\ wordRackIndices' = <<>>
               /\ start' = NoStart
               /\ calls'["skip"] = calls["skip"] + 1
               /\ calls'["load"] = calls["load"]
        /\ LastOp' = "skipTurnSettled" =>
               /\ UNCHANGED <<word, wordRackIndices, start>>
               /\ LastOp = "skipTurn" =>
                     word' = <<>> /\ wordRackIndices' = <<>> /\ start' = NoStart
               /\ calls'["skip"] = calls["skip"] - 1
               /\ calls'["load"]
                    = calls["load"] + (IF LastOutcome' = "ok" THEN 1 ELSE 0) ]_vars

\* C32 witness: a skip request is pending on a loaded game whose direction
\* had been set to col; the preview is empty.
C32_Witness ==
    /\ LastOp = "skipTurn"
    /\ calls["skip"] = 1
    /\ loading
    /\ board # NoBoard
    /\ direction = "col"
    /\ word = <<>>
    /\ wordRackIndices = <<>>
    /\ start = NoStart

\* C33 (as claimed): a drop either appends exactly one letter, with its rack
\* index, to the word, or leaves anchor, direction, word and letter sources
\* unchanged.
C33_Claimed ==
    [][ LastOp' = "handleDrop" =>
          \/ UNCHANGED <<start, direction, word, wordRackIndices>>
          \/ /\ Len(word') = Len(word) + 1
             /\ Len(wordRackIndices') = Len(wordRackIndices) + 1
             /\ AllButLast(word') = word
             /\ AllButLast(wordRackIndices') = wordRackIndices
             /\ wordRackIndices'[Len(wordRackIndices')] # NoIndex ]_vars

\* C34: a drop on a board cell that holds a letter changes nothing, whatever
\* the drag carries and whatever the word in progress; and a drop that
\* starts a word, or extends a word that has its anchor, leaves the board
\* alone and puts the new letter on an empty cell.
C34_OccupiedCellTakesNoDrop ==
    /\ [](board # NoBoard =>
            \A x \in Coords, y \in Coords, i \in DropData :
                board[y + 1][x + 1] # "." => handleDrop(S, x, y, i) = S)
    /\ [][ ( /\ LastOp' = "handleDrop"
             /\ Len(word') > Len(word)
             /\ (start # NoStart \/ Len(word) = 0) ) =>
           /\ board' = board
           /\ LET c == IF direction' = "row"
                       THEN <<start'[1] + Len(word), start'[2]>>
                       ELSE <<start'[1], start'[2] + Len(word)>>
              IN  board[c[2] + 1][c[1] + 1] = "." ]_vars

\* C34 witness: after a drop, one letter is anchored at (0, 0), the cell to
\* its right holds a letter of the board, and a drop of a free tile on that
\* cell changes nothing although the tile could be appended.
C34_Witness ==
    /\ LastOp = "handleDrop"
    /\ board # NoBoard
    /\ start = <<0, 0>>
    /\ Len(word) = 1
    /\ CellAt(<<1, 0>>) # "."
    /\ appendFromRack(S, 0) # S
    /\ handleDrop(S, 1, 0, 0) = S

\* Every letter of the word that has a rack index as its source is the
\* letter of the current player's rack at that index, case aside.
SourcesMatch(s) ==
    \A k \in DOMAIN s.wordRackIndices :
        s.wordRackIndices[k] # NoIndex =>
            /\ k \in DOMAIN s.word
            /\ s.wordRackIndices[k] + 1 \in DOMAIN rackOf(s)
            /\ toUpperCase(rackOf(s)[s.wordRackIndices[k] + 1])
                 = toUpperCase(s.word[k])

\* C35: when every sourced letter matches its tile, it still does after
\* appendFromRack, appendFromKeyboard, a drop (handleDrop,
\* placeLetterPreview), backspaceWord and clear, for every argument.
C35_SourcedLettersMatchTiles ==
    SourcesMatch(S) =>
        /\ \A i \in RackIdx : SourcesMatch(appendFromRack(S, i))
        /\ \A l \in KeyLetters : SourcesMatch(appendFromKeyboard(S, l))
        /\ board # NoBoard =>
              \A x \in Coords, y \in Coords, i \in DropData :
                  SourcesMatch(handleDrop(S, x, y, i))
        /\ \A x \in Coords, y \in Coords, l \in KeyLetters, i \in DropData :
              SourcesMatch(placeLetterPreview(S, x, y, l, i))
        /\ SourcesMatch(backspaceWord(S))
        /\ SourcesMatch(clear(S))

\* C35 witness: two letters typed on the keyboard have taken the two tiles
\* of the rack, a and A, and each matches its tile.
C35_Witness ==
    /\ LastOp = "appendFromKeyboard"
    /\ Len(word) = 2
    /\ wordRackIndices = <<0, 1>>
    /\ rackOf(S) = <<"a", "A">>
    /\ SourcesMatch(S)

\* C36: in every reachable state the exchange selection is empty when
\* exchange mode is off, and toggleExchangeIndex then changes nothing.
C36_SelectionOnlyInExchangeMode ==
    ~exchanging =>
        /\ exchangeSelection = <<>>
        /\ \A i \in RackIdx : toggleExchangeIndex(S, i) = S

\* C36 witness: toggleExchangeIndex has been called outside exchange mode on
\* a rack with tiles, and nothing is selected.
C36_Witness ==
    /\ LastOp = "toggleExchangeIndex"
    /\ ~exchanging
    /\ exchangeSelection = <<>>
    /\ Len(rackOf(S)) > 0

\* C37 (as claimed): when an accepted place request is handled, the letters
\* appended since the request was issued and not taken back since are still
\* the last letters of the word.
C37_Claimed ==
    [][ (lastCall' = <<"placeSettled", "ok">> /\ hStack # <<>>) =>
          /\ Len(word') >= Len(hStack)
          /\ Len(word) >= Len(hStack)
          /\ SubSeq(word', Len(word') - Len(hStack) + 1, Len(word'))
               = SubSeq(word, Len(word) - Len(hStack) + 1, Len(word)) ]_vars

\* The submission requests in flight: place, skip and exchange.
Submissions == calls["place"] + calls["skip"] + calls["exchange"]

C39_LoadingEnds ==
    /\ loading ~> ~loading
    /\ [](NumCalls(calls) = 0 => ~loading)
    /\ [][ ( \/ LastOp' \in {"loadGameDone", "loadGameFailed"}
             \/ /\ LastOp' \in {"placeSettled", "skipTurnSettled",
                                "confirmExchangeSettled"}
                /\ LastOutcome' # "ok" ) => ~loading' ]_vars

\* C39 witness: a skip request has thrown; no request is pending and the
\* store is not loading.
C39_Witness ==
    /\ lastCall = <<"skipTurnSettled", "throw">>
    /\ calls = NoCalls
    /\ ~loading
    /\ error = "message"

====
